---- MODULE Spec2Model ----
(***************************************************************************)
(* A model of generic_decorators.py: the two data-parallel wrappers        *)
(* (make_parallel over a ThreadPoolExecutor, make_parallel_processes over  *)
(* joblib.Parallel) and the singleton class decorator.                     *)
(*                                                                         *)
(* Spec           one invocation of a parallel wrapper, thread or process  *)
(*                variant, on an input list drawn in Init.                 *)
(* SpecSingleton  calls of a singleton-wrapped class from several threads. *)
(***************************************************************************)
EXTENDS Integers, Sequences, FiniteSets

\* ---------------------------------------------------------------- bounds
\* Longest input list of a wrapper invocation.
MaxLen == 3
\* Largest host CPU count (os.cpu_count() / multiprocessing.cpu_count()).
MaxCpu == 2
\* Longest input list of an invocation whose calls may never end.
MaxLenLive == 2
\* Longest input list of each of two invocations of the same wrapped function.
MaxLenTwo == 2
\* Threads that call a singleton-wrapped class, and the calls they make in all.
NCallers == 2
MaxCalls == 3
\* Calls of a timing-wrapped function, and the latest reading of the clock.
MaxTimedCalls == 2
MaxClock == 2

\* Elements of the input list, and the values func returns.
Vals == {1, 2}
Res == {10, 20}

\* What one call func(x) does: return a value of Res, or raise.
Returns(r) == [ok |-> TRUE, val |-> r]
Raises == [ok |-> FALSE, val |-> 0]
Outcomes == {Returns(r) : r \in Res} \cup {Raises}

\* generic_decorators.py:58
number_of_threads_multiple == 2

VARIABLES
    variant,            \* "threads": make_parallel, "processes": make_parallel_processes
    cpu,                \* the host's CPU count
    lst,                \* the wrapper's argument
    func,               \* the decorated function, as its outcome on each element
    pc,                 \* where the calling thread is in wrapper()
    number_of_workers,  \* wrapper's local; -1 before it is computed
    pool,               \* whether a pool (executor / Parallel) was created
    max_workers,        \* the size the pool was created with
    result,             \* wrapper's local list
    ret,                \* the list handed to the caller (when pc = "returned")
    raisedBy,           \* index of the call whose error reached the caller (pc = "raised")
    fstate,             \* per index of lst: "new", "pending", "running", "finished"
    queue,              \* the executor's work queue: indices of lst, FIFO
    shutdown,           \* executor._shutdown (the None sentinel is in the queue)
    nthreads,           \* worker threads spawned (len(executor._threads))
    nblocked,           \* workers waiting in work_queue.get(block=True)
    nexited,            \* workers that left _worker
    idleSem,            \* executor._idle_semaphore
    waiter,             \* whether as_completed installed its waiter
    unordered,          \* futures found finished when as_completed began, not yet yielded
    finished_futures,   \* waiter.finished_futures: completion order, not yet yielded
    calls,              \* per index of lst: how often func was started on it
    mainCalls,          \* how many of these calls ran in the calling thread
    hangs,              \* the elements on which func never ends
    firstFailed,        \* the first call to end by raising (0: none yet)
    queuedAtRaise,      \* calls still queued when an error left the loop of line 76
    class_,             \* the decorated class: whether its constructor accepts the arguments
    instances,          \* singleton's cache: <<>>, or <<o>> holding object o
    objects,            \* the objects class_ constructed, in order: object o was built from objects[o]
    ctorCalls,          \* the arguments of every call of class_(...), in order
    callLog,            \* the arguments of every call of getinstance, in order
    tpc,                \* per calling thread: where it is in getinstance()
    targs,              \* per calling thread: the arguments of its call
    tobj,               \* per calling thread: the object it built and has not stored yet
    returned,           \* the objects getinstance returned, in order
    nraised,            \* how many calls of getinstance ended with the constructor's error
    overlap,            \* whether two calls of getinstance were ever in progress at once
    wpc,                \* timing's wrap: "idle", "call" (before line 28), "measure" (after it)
    args,               \* wrap's positional argument
    kw,                 \* wrap's keyword argument
    clock,              \* what time() returns
    start_time,         \* wrap's local
    elapsed,            \* wrap's local
    tresult,            \* wrap's local result
    wcalls,             \* <<args, kw>> of every call of wrap, in order
    fcalls,             \* <<args, kw>> of every call wrap made of func, in order
    outcomes,           \* what every finished call of wrap gave its caller, in order
    log,                \* the lines printed, in order
    other               \* the locals and pool of a second invocation of wrapper

parVars == <<variant, cpu, lst, func, pc, number_of_workers, pool, max_workers,
             result, ret, raisedBy, fstate, queue, shutdown, nthreads, nblocked,
             nexited, idleSem, waiter, unordered, finished_futures, calls, mainCalls,
             hangs, firstFailed, queuedAtRaise>>
sglVars == <<class_, instances, objects, ctorCalls, callLog, tpc, targs, tobj,
             returned, nraised, overlap>>
tmVars == <<wpc, args, kw, clock, start_time, elapsed, tresult, wcalls, fcalls,
            outcomes, log>>
auxVars == <<tmVars, other>>
vars == <<parVars, sglVars, auxVars>>

\* ------------------------------------------------------------- helpers
SeqsUpTo(S, n) == UNION {[1..k -> S] : k \in 0..n}
Indices == 1..Len(lst)
Running == {i \in Indices : fstate[i] = "running"}
\* Workers at the top of _worker's loop, about to poll the queue.
Polling == nthreads - nblocked - nexited - Cardinality(Running)
AllFinished == \A i \in Indices : fstate[i] = "finished"
\* The next element the wrapper hands over (submission and dispatch follow lst's order).
NextNew == Cardinality({i \in Indices : fstate[i] # "new"}) + 1

\* Lines 59-63 without the cap of lines 60-63.
ThreadWorkersUncapped(C, n) == C * number_of_threads_multiple

\* Lines 59-63 without the multiple of line 58.
ThreadWorkersNoMultiple(C, n) == IF n < C THEN n ELSE C

\* make_parallel, lines 59-63.
ThreadWorkers(C, n) ==
    LET w == C * number_of_threads_multiple
    IN  IF n < w THEN n ELSE w

\* Lines 99-103 sized as make_parallel sizes its pool.
ProcessWorkersDoubled(C, n) ==
    LET w == C * number_of_threads_multiple
    IN  IF n < w THEN n ELSE w

\* make_parallel_processes, lines 99-103.
ProcessWorkers(C, n) ==
    LET w == C
    IN  IF n < w THEN n ELSE w

NumberOfWorkers ==
    IF variant = "threads" THEN ThreadWorkers(cpu, Len(lst))
    ELSE ProcessWorkers(cpu, Len(lst))

\* ---------------------------------------------------------------- Init
Callers == 1..NCallers

InitSingleton ==
    /\ class_ \in [Vals -> BOOLEAN]
    /\ instances = <<>>
    /\ objects = <<>>
    /\ ctorCalls = <<>>
    /\ callLog = <<>>
    /\ tpc = [t \in Callers |-> "idle"]
    /\ targs = [t \in Callers |-> 0]
    /\ tobj = [t \in Callers |-> 0]
    /\ returned = <<>>
    /\ nraised = 0
    /\ overlap = FALSE

\* No singleton-wrapped class is in use.
NoSingleton ==
    /\ class_ = [v \in Vals |-> TRUE]
    /\ instances = <<>>
    /\ objects = <<>>
    /\ ctorCalls = <<>>
    /\ callLog = <<>>
    /\ tpc = [t \in Callers |-> "idle"]
    /\ targs = [t \in Callers |-> 0]
    /\ tobj = [t \in Callers |-> 0]
    /\ returned = <<>>
    /\ nraised = 0
    /\ overlap = FALSE

\* No timing-wrapped function has been called.
InitTiming ==
    /\ wpc = "idle"
    /\ args = 0
    /\ kw = 0
    /\ clock = 0
    /\ start_time = 0
    /\ elapsed = 0
    /\ tresult = 0
    /\ wcalls = <<>>
    /\ fcalls = <<>>
    /\ outcomes = <<>>
    /\ log = <<>>

\* A single invocation of wrapper is described.
OneInvocation == other = <<>>

InitParallel ==
    /\ pc = "start"
    /\ number_of_workers = -1
    /\ pool = FALSE
    /\ max_workers = 0
    /\ result = <<>>
    /\ ret = <<>>
    /\ raisedBy = 0
    /\ fstate = [i \in Indices |-> "new"]
    /\ queue = <<>>
    /\ shutdown = FALSE
    /\ nthreads = 0
    /\ nblocked = 0
    /\ nexited = 0
    /\ idleSem = 0
    /\ waiter = FALSE
    /\ unordered = {}
    /\ finished_futures = <<>>
    /\ calls = [i \in Indices |-> 0]
    /\ mainCalls = 0
    /\ firstFailed = 0
    /\ queuedAtRaise = 0

Init ==
    /\ variant \in {"threads", "processes"}
    /\ cpu \in 1..MaxCpu
    /\ lst \in SeqsUpTo(Vals, MaxLen)
    /\ func \in [Vals -> Outcomes]
    /\ hangs = {}
    /\ InitParallel
    /\ NoSingleton
    /\ InitTiming
    /\ OneInvocation

inputs == <<variant, cpu, lst, func, hangs>>
histVars == <<firstFailed, queuedAtRaise>>
poolVars == <<queue, shutdown, nthreads, nblocked, nexited, idleSem>>
collectVars == <<waiter, unordered, finished_futures>>

\* ------------------------------------------------- wrapper: both variants
\* Lines 59-65 / 99-105 and the else of line 78 / 115: no workers, result = [].
ReturnEmpty ==
    /\ pc = "start"
    /\ NumberOfWorkers = 0
    /\ number_of_workers' = NumberOfWorkers
    /\ result' = <<>>
    /\ ret' = <<>>
    /\ pc' = "returned"
    /\ UNCHANGED <<inputs, pool, max_workers, raisedBy, fstate, poolVars,
                   collectVars, calls, mainCalls, sglVars, auxVars,
                   histVars>>

\* Lines 66-70 / 106-110: result = [func(lst[0])], in the calling thread.
RunSerially ==
    /\ pc = "start"
    /\ NumberOfWorkers = 1
    /\ lst[1] \notin hangs
    /\ number_of_workers' = NumberOfWorkers
    /\ calls' = [calls EXCEPT ![1] = @ + 1]
    /\ mainCalls' = mainCalls + 1
    /\ fstate' = [fstate EXCEPT ![1] = "finished"]
    /\ IF func[lst[1]].ok
       THEN /\ result' = <<func[lst[1]].val>>
            /\ ret' = result'
            /\ pc' = "returned"
            /\ UNCHANGED raisedBy
       ELSE /\ raisedBy' = 1
            /\ pc' = "raised"
            /\ UNCHANGED <<result, ret>>
    /\ UNCHANGED <<inputs, pool, max_workers, poolVars, collectVars, sglVars, auxVars,
                   histVars>>

\* ------------------------------------------------ make_parallel, lines 73-77
\* Line 74 reached without the shortcut of lines 66-70.
OpenExecutorForOne ==
    /\ pc = "start"
    /\ variant = "threads"
    /\ NumberOfWorkers >= 1
    /\ number_of_workers' = NumberOfWorkers
    /\ result' = <<>>
    /\ pool' = TRUE
    /\ max_workers' = NumberOfWorkers
    /\ pc' = "submit"
    /\ UNCHANGED <<inputs, ret, raisedBy, fstate, poolVars, collectVars,
                   calls, mainCalls, sglVars, auxVars,
                   histVars>>

\* Line 74: ThreadPoolExecutor(max_workers=number_of_workers); no thread starts yet.
OpenExecutor ==
    /\ pc = "start"
    /\ variant = "threads"
    /\ NumberOfWorkers > 1
    /\ number_of_workers' = NumberOfWorkers
    /\ result' = <<>>
    /\ pool' = TRUE
    /\ max_workers' = NumberOfWorkers
    /\ pc' = "submit"
    /\ UNCHANGED <<inputs, ret, raisedBy, fstate, poolVars, collectVars,
                   calls, mainCalls, sglVars, auxVars,
                   histVars>>

\* Line 75, one element: executer.submit(func, i) queues the call and, when no
\* worker is idle and fewer than max_workers exist, starts one more thread.
Submit ==
    /\ pc = "submit"
    /\ NextNew <= Len(lst)
    /\ fstate' = [fstate EXCEPT ![NextNew] = "pending"]
    /\ queue' = Append(queue, NextNew)
    /\ IF idleSem > 0
       THEN idleSem' = idleSem - 1 /\ UNCHANGED nthreads
       ELSE /\ nthreads' = IF nthreads < max_workers THEN nthreads + 1 ELSE nthreads
            /\ UNCHANGED idleSem
    /\ UNCHANGED <<inputs, pc, number_of_workers, pool, max_workers, result, ret,
                   raisedBy, shutdown, nblocked, nexited, collectVars, calls,
                   mainCalls, sglVars, auxVars,
                   histVars>>

\* Line 76, entering the loop: as_completed(bag) notes the futures already
\* finished (a set: it yields them in no particular order) and installs its waiter.
AsCompletedBegin ==
    /\ pc = "submit"
    /\ NextNew > Len(lst)
    /\ unordered' = {i \in Indices : fstate[i] = "finished"}
    /\ waiter' = TRUE
    /\ pc' = "collect"
    /\ UNCHANGED <<inputs, number_of_workers, pool, max_workers, result, ret,
                   raisedBy, fstate, poolVars, finished_futures, calls, mainCalls,
                   sglVars, auxVars, histVars>>

\* Line 77 appending the future's key in bag (the input) in place of its result.
DeliverKey(i) ==
    /\ IF func[lst[i]].ok
       THEN /\ result' = Append(result, lst[i])
            /\ UNCHANGED <<pc, raisedBy, queuedAtRaise>>
       ELSE /\ raisedBy' = i
            /\ queuedAtRaise' = Len(queue)
            /\ pc' = "shutdown"
            /\ UNCHANGED result

\* Line 77 wrapped in a try/except that drops a failed call.
DeliverSuppressed(i) ==
    /\ result' = IF func[lst[i]].ok THEN Append(result, func[lst[i]].val) ELSE result
    /\ UNCHANGED <<pc, raisedBy, queuedAtRaise>>

\* Line 77 keeping a call's error for after the loop instead of leaving it.
DeliverDeferred(i) ==
    /\ IF func[lst[i]].ok
       THEN /\ result' = Append(result, func[lst[i]].val)
            /\ UNCHANGED <<pc, raisedBy, queuedAtRaise>>
       ELSE /\ raisedBy' = i
            /\ UNCHANGED <<pc, result, queuedAtRaise>>

\* Line 77 on the future as_completed yields: future.result() returns the call's
\* value, which is appended, or re-raises the call's error, which leaves the loop.
Deliver(i) ==
    /\ IF func[lst[i]].ok
       THEN /\ result' = Append(result, func[lst[i]].val)
            /\ UNCHANGED <<pc, raisedBy, queuedAtRaise>>
       ELSE /\ raisedBy' = i
            /\ queuedAtRaise' = Len(queue)
            /\ pc' = "shutdown"
            /\ UNCHANGED result

\* Lines 76-77, one iteration: the futures finished before the loop began come
\* first, then the others in the order they finish.
CollectNext ==
    /\ pc = "collect"
    /\ \/ \E i \in unordered :
            /\ unordered' = unordered \ {i}
            /\ Deliver(i)
            /\ UNCHANGED finished_futures
       \/ /\ unordered = {}
          /\ finished_futures # <<>>
          /\ finished_futures' = Tail(finished_futures)
          /\ Deliver(Head(finished_futures))
          /\ UNCHANGED unordered
    /\ UNCHANGED <<inputs, number_of_workers, pool, max_workers, ret, fstate,
                   poolVars, waiter, calls, mainCalls, sglVars, auxVars, firstFailed>>

\* Line 76, the loop ends: as_completed has yielded every future.
CollectDone ==
    /\ pc = "collect"
    /\ unordered = {}
    /\ finished_futures = <<>>
    /\ AllFinished
    /\ pc' = "shutdown"
    /\ UNCHANGED <<inputs, number_of_workers, pool, max_workers, result, ret,
                   raisedBy, fstate, poolVars, collectVars, calls, mainCalls,
                   sglVars, auxVars,
                   histVars>>

\* Leaving the with block without waking the workers that wait on the queue.
ExecutorShutdownSilent ==
    /\ pc = "shutdown"
    /\ pc' = "join"
    /\ UNCHANGED <<inputs, number_of_workers, pool, max_workers, result, ret,
                   raisedBy, fstate, queue, shutdown, nthreads, nblocked, nexited,
                   idleSem, collectVars, calls, mainCalls, sglVars, auxVars, histVars>>

\* Leaving the with block through shutdown(wait=True, cancel_futures=True).
ExecutorShutdownCancelling ==
    /\ pc = "shutdown"
    /\ shutdown' = TRUE
    /\ queue' = <<>>
    /\ pc' = "join"
    /\ UNCHANGED <<inputs, number_of_workers, pool, max_workers, result, ret,
                   raisedBy, fstate, nthreads, nblocked, nexited, idleSem,
                   collectVars, calls, mainCalls, sglVars, auxVars, histVars>>

\* Line 74, leaving the with block (normally or with an error in flight):
\* __exit__ calls shutdown(wait=True), which first flags the executor.
ExecutorShutdown ==
    /\ pc = "shutdown"
    /\ shutdown' = TRUE
    /\ pc' = "join"
    /\ UNCHANGED <<inputs, number_of_workers, pool, max_workers, result, ret,
                   raisedBy, fstate, queue, nthreads, nblocked, nexited, idleSem,
                   collectVars, calls, mainCalls, sglVars, auxVars,
                   histVars>>

\* shutdown(wait=False): the caller goes on without joining.
JoinNobody == TRUE

\* shutdown(wait=True) joins every worker thread; then line 80 returns result,
\* or the error in flight reaches the caller.
JoinWorkers == nexited = nthreads

Join ==
    /\ pc = "join"
    /\ JoinWorkers
    /\ IF raisedBy = 0
       THEN pc' = "returned" /\ ret' = result
       ELSE pc' = "raised" /\ UNCHANGED ret
    /\ UNCHANGED <<inputs, number_of_workers, pool, max_workers, result, raisedBy,
                   fstate, poolVars, collectVars, calls, mainCalls, sglVars, auxVars,
                   histVars>>

\* ------------------------------ ThreadPoolExecutor's workers (line 74's pool)
\* A worker takes the oldest queued call and starts it (work_item.run() calls func).
WorkerTake ==
    /\ queue # <<>>
    /\ \/ Polling > 0 /\ UNCHANGED nblocked
       \/ nblocked > 0 /\ nblocked' = nblocked - 1
    /\ queue' = Tail(queue)
    /\ fstate' = [fstate EXCEPT ![Head(queue)] = "running"]
    /\ calls' = [calls EXCEPT ![Head(queue)] = @ + 1]
    /\ UNCHANGED <<inputs, pc, number_of_workers, pool, max_workers, result, ret,
                   raisedBy, shutdown, nthreads, nexited, idleSem, collectVars,
                   mainCalls, sglVars, auxVars,
                   histVars>>

\* A worker finds the queue empty: it releases the idle semaphore and blocks in get().
WorkerIdle ==
    /\ Polling > 0
    /\ queue = <<>>
    /\ ~shutdown
    /\ idleSem' = idleSem + 1
    /\ nblocked' = nblocked + 1
    /\ UNCHANGED <<inputs, pc, number_of_workers, pool, max_workers, result, ret,
                   raisedBy, fstate, queue, shutdown, nthreads, nexited,
                   collectVars, calls, mainCalls, sglVars, auxVars,
                   histVars>>

\* The call func(lst[i]) ends: the future holds its value or its error, and the
\* waiter of as_completed, when installed, notes the future as finished.
WorkerFinish(i) ==
    /\ variant = "threads"
    /\ fstate[i] = "running"
    /\ lst[i] \notin hangs
    /\ fstate' = [fstate EXCEPT ![i] = "finished"]
    /\ finished_futures' = IF waiter THEN Append(finished_futures, i)
                           ELSE finished_futures
    /\ firstFailed' = IF firstFailed = 0 /\ ~func[lst[i]].ok THEN i ELSE firstFailed
    /\ UNCHANGED <<inputs, pc, number_of_workers, pool, max_workers, result, ret,
                   raisedBy, poolVars, waiter, unordered, calls, mainCalls, sglVars,
                   auxVars, queuedAtRaise>>

\* After shutdown a worker with nothing left to run takes the None sentinel,
\* puts it back for the others and returns.
WorkerExit ==
    /\ shutdown
    /\ queue = <<>>
    /\ \/ Polling > 0 /\ UNCHANGED nblocked
       \/ nblocked > 0 /\ nblocked' = nblocked - 1
    /\ nexited' = nexited + 1
    /\ UNCHANGED <<inputs, pc, number_of_workers, pool, max_workers, result, ret,
                   raisedBy, fstate, queue, shutdown, nthreads, idleSem,
                   collectVars, calls, mainCalls, sglVars, auxVars,
                   histVars>>

\* ------------------------------------- make_parallel_processes, line 114
\* Parallel(n_jobs=number_of_workers) is created for the calls of the generator.
OpenParallel ==
    /\ pc = "start"
    /\ variant = "processes"
    /\ NumberOfWorkers > 1
    /\ number_of_workers' = NumberOfWorkers
    /\ pool' = TRUE
    /\ max_workers' = NumberOfWorkers
    /\ pc' = "parallel"
    /\ UNCHANGED <<inputs, result, ret, raisedBy, fstate, poolVars, collectVars,
                   calls, mainCalls, sglVars, auxVars,
                   histVars>>

\* Parallel hands the next call of the generator to a free worker process.
JobDispatch ==
    /\ pc = "parallel"
    /\ NextNew <= Len(lst)
    /\ Cardinality(Running) < max_workers
    /\ fstate' = [fstate EXCEPT ![NextNew] = "running"]
    /\ calls' = [calls EXCEPT ![NextNew] = @ + 1]
    /\ UNCHANGED <<inputs, pc, number_of_workers, pool, max_workers, result, ret,
                   raisedBy, poolVars, collectVars, mainCalls, sglVars, auxVars,
                   histVars>>

\* A worker process ends its call.
JobFinish(i) ==
    /\ pc = "parallel"
    /\ fstate[i] = "running"
    /\ lst[i] \notin hangs
    /\ fstate' = [fstate EXCEPT ![i] = "finished"]
    /\ UNCHANGED <<inputs, pc, number_of_workers, pool, max_workers, result, ret,
                   raisedBy, poolVars, collectVars, calls, mainCalls, sglVars, auxVars,
                   histVars>>

\* Parallel returns the calls' values as a list in the order of the generator.
GatherInOrder == [i \in Indices |-> func[lst[i]].val]

\* Every call returned: line 114 assigns the gathered list, line 117 returns it.
JobsReturn ==
    /\ pc = "parallel"
    /\ AllFinished
    /\ \A i \in Indices : func[lst[i]].ok
    /\ result' = GatherInOrder
    /\ ret' = result'
    /\ pc' = "returned"
    /\ UNCHANGED <<inputs, number_of_workers, pool, max_workers, raisedBy, fstate,
                   poolVars, collectVars, calls, mainCalls, sglVars, auxVars,
                   histVars>>

\* A call raised: Parallel aborts the batch and re-raises that error.
JobsRaise ==
    /\ pc = "parallel"
    /\ \E i \in Indices :
          /\ fstate[i] = "finished"
          /\ ~func[lst[i]].ok
          /\ raisedBy' = i
    /\ pc' = "raised"
    /\ UNCHANGED <<inputs, number_of_workers, pool, max_workers, result, ret, fstate,
                   poolVars, collectVars, calls, mainCalls, sglVars, auxVars,
                   histVars>>

\* ---------------------------------------------------------------- Spec
Next ==
    \/ ReturnEmpty
    \/ RunSerially
    \/ OpenExecutor
    \/ Submit
    \/ AsCompletedBegin
    \/ CollectNext
    \/ CollectDone
    \/ ExecutorShutdown
    \/ Join
    \/ WorkerTake
    \/ WorkerIdle
    \/ \E i \in Indices : WorkerFinish(i)
    \/ WorkerExit
    \/ OpenParallel
    \/ JobDispatch
    \/ \E i \in Indices : JobFinish(i)
    \/ JobsReturn
    \/ JobsRaise

Spec == Init /\ [][Next]_vars

\* ------------------------------- make_parallel with calls that may never end
\* Lines 66-70 on an element on which func never ends: the caller stays in func.
HangSerially ==
    /\ pc = "start"
    /\ NumberOfWorkers = 1
    /\ lst[1] \in hangs
    /\ number_of_workers' = NumberOfWorkers
    /\ calls' = [calls EXCEPT ![1] = @ + 1]
    /\ mainCalls' = mainCalls + 1
    /\ fstate' = [fstate EXCEPT ![1] = "running"]
    /\ pc' = "call"
    /\ UNCHANGED <<inputs, pool, max_workers, result, ret, raisedBy, poolVars,
                   collectVars, sglVars, auxVars, histVars>>

InitLive ==
    /\ variant = "threads"
    /\ cpu \in 1..MaxCpu
    /\ lst \in SeqsUpTo(Vals, MaxLenLive)
    /\ func \in [Vals -> Outcomes]
    /\ hangs \in SUBSET Vals
    /\ \A v \in hangs : func[v] = Raises
    /\ InitParallel
    /\ NoSingleton
    /\ InitTiming
    /\ OneInvocation

\* The steps of the thread that called wrapper.
Caller ==
    \/ ReturnEmpty
    \/ RunSerially
    \/ HangSerially
    \/ OpenExecutor
    \/ Submit
    \/ AsCompletedBegin
    \/ CollectNext
    \/ CollectDone
    \/ ExecutorShutdown
    \/ Join

\* The steps of the pool's threads between calls of func.
Worker ==
    \/ WorkerTake
    \/ WorkerIdle
    \/ WorkerExit

\* The call of func on lst's i-th element ends.
FinishCall(i) == i \in Indices /\ WorkerFinish(i)

NextLive ==
    \/ Caller
    \/ Worker
    \/ \E i \in 1..MaxLenLive : FinishCall(i)

\* A fair scheduler: the caller and the pool's threads run when they can, and a
\* call of func on an element outside hangs ends.
Fairness ==
    /\ WF_vars(Caller)
    /\ WF_vars(Worker)
    /\ \A i \in 1..MaxLenLive : WF_vars(FinishCall(i))

SpecLive == InitLive /\ [][NextLive]_vars /\ Fairness

\* ------------------------------------ two invocations of make_parallel's wrapper
\* What one invocation of wrapper owns: its argument, its locals and its pool
\* (lines 47-80). func, and the host, are what two invocations have in common.
Invocation ==
    [lst |-> lst, pc |-> pc, number_of_workers |-> number_of_workers, pool |-> pool,
     max_workers |-> max_workers, result |-> result, ret |-> ret,
     raisedBy |-> raisedBy, fstate |-> fstate, queue |-> queue,
     shutdown |-> shutdown, nthreads |-> nthreads, nblocked |-> nblocked,
     nexited |-> nexited, idleSem |-> idleSem, waiter |-> waiter,
     unordered |-> unordered, finished_futures |-> finished_futures,
     calls |-> calls, mainCalls |-> mainCalls, firstFailed |-> firstFailed,
     queuedAtRaise |-> queuedAtRaise]

\* An invocation on list L that has not begun.
NewInvocation(L) ==
    [lst |-> L, pc |-> "start", number_of_workers |-> -1, pool |-> FALSE,
     max_workers |-> 0, result |-> <<>>, ret |-> <<>>, raisedBy |-> 0,
     fstate |-> [i \in 1..Len(L) |-> "new"], queue |-> <<>>, shutdown |-> FALSE,
     nthreads |-> 0, nblocked |-> 0, nexited |-> 0, idleSem |-> 0,
     waiter |-> FALSE, unordered |-> {}, finished_futures |-> <<>>,
     calls |-> [i \in 1..Len(L) |-> 0], mainCalls |-> 0, firstFailed |-> 0,
     queuedAtRaise |-> 0]

\* The scheduler turns to the threads of the other invocation: every local of
\* wrapper and the pool belong to the invocation.
SwitchAllButResult ==
    /\ other' = Invocation
    /\ lst' = other.lst
    /\ pc' = other.pc
    /\ number_of_workers' = other.number_of_workers
    /\ pool' = other.pool
    /\ max_workers' = other.max_workers
    /\ ret' = other.ret
    /\ raisedBy' = other.raisedBy
    /\ fstate' = other.fstate
    /\ queue' = other.queue
    /\ shutdown' = other.shutdown
    /\ nthreads' = other.nthreads
    /\ nblocked' = other.nblocked
    /\ nexited' = other.nexited
    /\ idleSem' = other.idleSem
    /\ waiter' = other.waiter
    /\ unordered' = other.unordered
    /\ finished_futures' = other.finished_futures
    /\ calls' = other.calls
    /\ mainCalls' = other.mainCalls
    /\ firstFailed' = other.firstFailed
    /\ queuedAtRaise' = other.queuedAtRaise
    /\ UNCHANGED <<variant, cpu, func, hangs, sglVars, tmVars>>

\* The same with the list of results kept by the decorator (a result = []
\* beside line 46), one list for every invocation.
SwitchSharedResult ==
    /\ SwitchAllButResult
    /\ result' = result

Switch ==
    /\ SwitchAllButResult
    /\ result' = other.result

InitTwo ==
    /\ variant = "threads"
    /\ cpu = MaxCpu    \* one host; lines 59-63 give Len(lst) workers to lists this short
    /\ func \in [Vals -> Outcomes]
    /\ hangs = {}
    /\ lst \in SeqsUpTo(Vals, MaxLenTwo)
    /\ InitParallel
    /\ other \in {NewInvocation(L) : L \in SeqsUpTo(Vals, MaxLenTwo)}
    /\ NoSingleton
    /\ InitTiming

NextTwo ==
    \/ ReturnEmpty
    \/ RunSerially
    \/ OpenExecutor
    \/ Submit
    \/ AsCompletedBegin
    \/ CollectNext
    \/ CollectDone
    \/ ExecutorShutdown
    \/ Join
    \/ Worker
    \/ \E i \in 1..MaxLenTwo : FinishCall(i)
    \/ Switch

SpecTwo == InitTwo /\ [][NextTwo]_vars

\* ------------------------------------------------- singleton, lines 121-133
\* Thread t calls the wrapped class with argument a: getinstance(a) begins.
Call(t, a) ==
    /\ tpc[t] = "idle"
    /\ Len(callLog) < MaxCalls
    /\ callLog' = Append(callLog, a)
    /\ targs' = [targs EXCEPT ![t] = a]
    /\ tpc' = [tpc EXCEPT ![t] = "check"]
    /\ overlap' = (overlap \/ \E u \in Callers \ {t} : tpc[u] # "idle")
    /\ UNCHANGED <<class_, instances, objects, ctorCalls, tobj, returned, nraised,
                   parVars, auxVars>>

\* Line 128 with the membership test lost: every call constructs.
CheckNothing(t) ==
    /\ tpc[t] = "check"
    /\ tpc' = [tpc EXCEPT ![t] = "construct"]
    /\ UNCHANGED <<class_, instances, objects, ctorCalls, callLog, targs, tobj,
                   returned, nraised, overlap, parVars, auxVars>>

\* Line 128: if class_ not in instances.
Check(t) ==
    /\ tpc[t] = "check"
    /\ tpc' = [tpc EXCEPT ![t] = IF instances = <<>> THEN "construct" ELSE "return"]
    /\ UNCHANGED <<class_, instances, objects, ctorCalls, callLog, targs, tobj,
                   returned, nraised, overlap, parVars, auxVars>>

\* Line 130 under a second test of the cache (double-checked construction).
ConstructRechecked(t) ==
    /\ tpc[t] = "construct"
    /\ IF instances # <<>>
       THEN /\ tpc' = [tpc EXCEPT ![t] = "return"]
            /\ UNCHANGED <<objects, tobj, nraised, ctorCalls>>
       ELSE /\ ctorCalls' = Append(ctorCalls, targs[t])
            /\ IF class_[targs[t]]
               THEN /\ objects' = Append(objects, targs[t])
                    /\ tobj' = [tobj EXCEPT ![t] = Len(objects) + 1]
                    /\ tpc' = [tpc EXCEPT ![t] = "store"]
                    /\ UNCHANGED nraised
               ELSE /\ nraised' = nraised + 1
                    /\ tpc' = [tpc EXCEPT ![t] = "idle"]
                    /\ UNCHANGED <<objects, tobj>>
    /\ UNCHANGED <<class_, instances, callLog, targs, returned, overlap, parVars, auxVars>>

\* Line 130 keeping a placeholder (object 0) in the cache when class_ raises.
ConstructCachingFailure(t) ==
    /\ tpc[t] = "construct"
    /\ ctorCalls' = Append(ctorCalls, targs[t])
    /\ IF class_[targs[t]]
       THEN /\ objects' = Append(objects, targs[t])
            /\ tobj' = [tobj EXCEPT ![t] = Len(objects) + 1]
            /\ tpc' = [tpc EXCEPT ![t] = "store"]
            /\ UNCHANGED <<nraised, instances>>
       ELSE /\ nraised' = nraised + 1
            /\ instances' = <<0>>
            /\ tpc' = [tpc EXCEPT ![t] = "idle"]
            /\ UNCHANGED <<objects, tobj>>
    /\ UNCHANGED <<class_, callLog, targs, returned, overlap, parVars, auxVars>>

\* Line 130, right-hand side: class_(*args, **kwargs) builds a new object, or
\* raises and the error leaves getinstance.
Construct(t) ==
    /\ tpc[t] = "construct"
    /\ ctorCalls' = Append(ctorCalls, targs[t])
    /\ IF class_[targs[t]]
       THEN /\ objects' = Append(objects, targs[t])
            /\ tobj' = [tobj EXCEPT ![t] = Len(objects) + 1]
            /\ tpc' = [tpc EXCEPT ![t] = "store"]
            /\ UNCHANGED nraised
       ELSE /\ nraised' = nraised + 1
            /\ tpc' = [tpc EXCEPT ![t] = "idle"]
            /\ UNCHANGED <<objects, tobj>>
    /\ UNCHANGED <<class_, instances, callLog, targs, returned, overlap, parVars, auxVars>>

\* Line 130, the assignment: instances[class_] = the object just built.
Store(t) ==
    /\ tpc[t] = "store"
    /\ instances' = <<tobj[t]>>
    /\ tobj' = [tobj EXCEPT ![t] = 0]
    /\ tpc' = [tpc EXCEPT ![t] = "return"]
    /\ UNCHANGED <<class_, objects, ctorCalls, callLog, targs, returned, nraised,
                   overlap, parVars, auxVars>>

\* Line 131: return instances[class_].
Return(t) ==
    /\ tpc[t] = "return"
    /\ returned' = Append(returned, instances[1])
    /\ tpc' = [tpc EXCEPT ![t] = "idle"]
    /\ UNCHANGED <<class_, instances, objects, ctorCalls, callLog, targs, tobj,
                   nraised, overlap, parVars, auxVars>>

\* No parallel wrapper is in use.
NoParallel ==
    /\ variant = "threads"
    /\ cpu = 1
    /\ lst = <<>>
    /\ func = [v \in Vals |-> Raises]
    /\ hangs = {}
    /\ InitParallel

InitSingletonSpec == NoParallel /\ InitSingleton /\ InitTiming /\ OneInvocation

NextSingleton ==
    \/ \E t \in Callers, a \in Vals : Call(t, a)
    \/ \E t \in Callers : Check(t)
    \/ \E t \in Callers : Construct(t)
    \/ \E t \in Callers : Store(t)
    \/ \E t \in Callers : Return(t)

SpecSingleton == InitSingletonSpec /\ [][NextSingleton]_vars

\* ---------------------------------------------------- timing, lines 21-32
\* wrap(a, key=k) is called; line 27: start_time = time().
TimingCall(a, k) ==
    /\ wpc = "idle"
    /\ Len(wcalls) < MaxTimedCalls
    /\ wcalls' = Append(wcalls, <<a, k>>)
    /\ args' = a
    /\ kw' = k
    /\ start_time' = clock
    /\ wpc' = "call"
    /\ UNCHANGED <<clock, elapsed, tresult, fcalls, outcomes, log, parVars, sglVars, other>>

\* Line 28 passing the positional arguments alone: func(*args).
TimingFuncNoKw ==
    /\ wpc = "call"
    /\ fcalls' = Append(fcalls, <<args, 0>>)
    /\ IF func[args].ok
       THEN /\ tresult' = func[args].val
            /\ wpc' = "measure"
            /\ UNCHANGED outcomes
       ELSE /\ outcomes' = Append(outcomes, Raises)
            /\ wpc' = "idle"
            /\ UNCHANGED tresult
    /\ UNCHANGED <<args, kw, clock, start_time, elapsed, wcalls, log, parVars, sglVars, other>>

\* Line 28 inside try/finally with the print in the finally: a line per call.
TimingFuncLogsAlways ==
    /\ wpc = "call"
    /\ fcalls' = Append(fcalls, <<args, kw>>)
    /\ IF func[args].ok
       THEN /\ tresult' = func[args].val
            /\ wpc' = "measure"
            /\ UNCHANGED <<outcomes, log>>
       ELSE /\ outcomes' = Append(outcomes, Raises)
            /\ log' = Append(log, [args |-> args, kw |-> kw, took |-> clock - start_time])
            /\ wpc' = "idle"
            /\ UNCHANGED tresult
    /\ UNCHANGED <<args, kw, clock, start_time, elapsed, wcalls, parVars, sglVars, other>>

\* Line 28: result = func(*args, **kw); an error of func leaves wrap at once.
TimingFunc ==
    /\ wpc = "call"
    /\ fcalls' = Append(fcalls, <<args, kw>>)
    /\ IF func[args].ok
       THEN /\ tresult' = func[args].val
            /\ wpc' = "measure"
            /\ UNCHANGED outcomes
       ELSE /\ outcomes' = Append(outcomes, Raises)
            /\ wpc' = "idle"
            /\ UNCHANGED tresult
    /\ UNCHANGED <<args, kw, clock, start_time, elapsed, wcalls, log, parVars, sglVars, other>>

\* Lines 29-31: elapsed = time() - start_time; print(...); return result.
TimingReturn ==
    /\ wpc = "measure"
    /\ elapsed' = clock - start_time
    /\ log' = Append(log, [args |-> args, kw |-> kw, took |-> elapsed'])
    /\ outcomes' = Append(outcomes, Returns(tresult))
    /\ wpc' = "idle"
    /\ UNCHANGED <<args, kw, clock, start_time, tresult, wcalls, fcalls, parVars, sglVars, other>>

\* Time passes.
Tick ==
    /\ clock < MaxClock
    /\ clock' = clock + 1
    /\ UNCHANGED <<wpc, args, kw, start_time, elapsed, tresult, wcalls, fcalls,
                   outcomes, log, parVars, sglVars, other>>

InitTimingSpec ==
    /\ variant = "threads"
    /\ cpu = 1
    /\ lst = <<>>
    /\ func \in [Vals -> Outcomes]
    /\ hangs = {}
    /\ InitParallel
    /\ NoSingleton
    /\ InitTiming
    /\ OneInvocation

NextTiming ==
    \/ \E a \in Vals, k \in Vals : TimingCall(a, k)
    \/ TimingFunc
    \/ TimingReturn
    \/ Tick

SpecTiming == InitTimingSpec /\ [][NextTiming]_vars

\* ================================================================ claims
Min2(a, b) == IF a <= b THEN a ELSE b
\* R is [f(x) for x in lst] up to the order of its elements.
IsPermutationOfMap(R) ==
    /\ Len(R) = Len(lst)
    /\ \E p \in [Indices -> Indices] :
          /\ \A i, j \in Indices : p[i] = p[j] => i = j
          /\ \A i \in Indices : R[i] = func[lst[p[i]]].val
Done == pc \in {"returned", "raised"}

\* C1: the process variant, on a non-empty list and a func that raises on none
\* of its elements, returns a list as long as lst whose i-th element is
\* func(lst[i]). (The code returns [func(lst[0])] alone when the host has one CPU.)
C1_ProcessMapInOrder ==
    (/\ variant = "processes"
     /\ Len(lst) >= 1
     /\ \A i \in Indices : func[lst[i]].ok
     /\ pc = "returned")
    => /\ Len(ret) = Len(lst)
       /\ \A i \in Indices : ret[i] = func[lst[i]].val

\* C2: the thread variant returns a permutation of [func(x) for x in lst]: as
\* many results as inputs, one per occurrence, in whatever order the calls ended.
C2_ThreadPermutation ==
    (variant = "threads" /\ Len(lst) >= 1 /\ pc = "returned")
    => IsPermutationOfMap(ret)

\* C2 witness: a list with a repeated element came back in another order than lst's.
C2_Witness ==
    /\ variant = "threads"
    /\ pc = "returned"
    /\ Len(lst) = 3
    /\ lst[1] = lst[3]
    /\ ret # GatherInOrder

\* C3: on an empty list both wrappers return [] at once: func is not called,
\* no pool is created and no worker starts.
C3_EmptyInput ==
    Len(lst) = 0
    => /\ pc \in {"start", "returned"}
       /\ pc = "returned" => ret = <<>>
       /\ ~pool
       /\ mainCalls = 0
       /\ nthreads = 0
       /\ Running = {}

\* C3 witness: a wrapper returned from a call on the empty list.
C3_Witness == Len(lst) = 0 /\ pc = "returned" /\ number_of_workers = 0

\* C4: on a list of one element both wrappers call func once, on lst[0], in the
\* calling thread and without a pool, and return [func(lst[0])] (or func's error
\* reaches the caller).
C4_SingleElement ==
    (Len(lst) = 1 /\ pc # "start")
    => /\ Done
       /\ calls[1] = 1
       /\ mainCalls = 1
       /\ ~pool
       /\ nthreads = 0
       /\ IF func[lst[1]].ok
          THEN pc = "returned" /\ ret = <<func[lst[1]].val>>
          ELSE pc = "raised" /\ raisedBy = 1

\* C4 witness: the process variant returned [func(lst[0])] on a host of several CPUs.
C4_Witness ==
    /\ Len(lst) = 1
    /\ variant = "processes"
    /\ cpu = MaxCpu
    /\ pc = "returned"
    /\ ret = <<func[lst[1]].val>>

\* C5: in the thread variant on two or more elements the pool is created with
\* min(2*C, |L|) workers, and never more calls of func run at once (nor more
\* worker threads exist) than that.
C5_ThreadPoolSize ==
    (variant = "threads" /\ Len(lst) >= 2 /\ pc # "start")
    => /\ pool
       /\ max_workers = Min2(2 * cpu, Len(lst))
       /\ Cardinality(Running) <= Min2(2 * cpu, Len(lst))
       /\ nthreads <= Min2(2 * cpu, Len(lst))

\* C5 witness: with one CPU and three elements two calls run and the third waits.
C5_Witness ==
    /\ variant = "threads"
    /\ cpu = 1
    /\ Len(lst) = 3
    /\ Cardinality(Running) = 2
    /\ queue # <<>>

\* C6 as stated: the process variant's worker count is min(2*C, |L|).
C6_SameFormula ==
    (variant = "processes" /\ pc # "start")
    => number_of_workers = Min2(2 * cpu, Len(lst))

\* C6 as amended: the process variant's worker count is min(C, |L|), the CPU
\* count itself and not its double.
C6_ProcessFormula ==
    (variant = "processes" /\ pc # "start")
    => number_of_workers = Min2(cpu, Len(lst))

\* C6 witness: the CPU count, smaller than the list and than its double's cap, decides.
C6_Witness ==
    /\ variant = "processes"
    /\ pc # "start"
    /\ cpu < Len(lst)
    /\ Len(lst) <= 2 * cpu
    /\ number_of_workers = cpu

C8_ConstructAfterCheck ==
    [][\A t \in Callers :
          (tpc[t] = "construct" /\ tpc'[t] # "construct")
          => Len(ctorCalls') = Len(ctorCalls) + 1]_vars

\* C8 witness: two first calls, made concurrently, built two objects and
\* returned different ones.
C8_Witness ==
    /\ Len(callLog) = 2
    /\ overlap
    /\ Len(objects) = 2
    /\ Len(returned) = 2
    /\ returned[1] # returned[2]

\* C9: in the thread variant on two or more elements, when a call raises the
\* wrapper hands no list to the caller, the error that reaches the caller is
\* that of a call that raised, the invocation does not stop before it, and
\* func is started at most once per element.
C9_ThreadFailure ==
    (variant = "threads" /\ Len(lst) >= 2)
    => /\ (\E i \in Indices : ~func[lst[i]].ok) => pc # "returned" /\ ret = <<>>
       /\ pc = "raised" => raisedBy \in Indices /\ ~func[lst[raisedBy]].ok
       /\ \A i \in Indices : calls[i] <= 1
       /\ Done \/ ENABLED Next

\* C9 witness: the error reached the caller after some results had been collected.
C9_Witness ==
    /\ variant = "threads"
    /\ Len(lst) >= 2
    /\ pc = "raised"
    /\ result # <<>>
    /\ ret = <<>>

\* C10: when the thread variant's wrapper hands control back (by return or by
\* a call's error) no call of func is running or queued and every worker
\* thread of the pool has been joined.
C10_PoolTornDown ==
    (variant = "threads" /\ pool /\ Done)
    => /\ Running = {}
       /\ queue = <<>>
       /\ AllFinished
       /\ nexited = nthreads
       /\ shutdown

\* C10 witness: an error reached the caller of a pool of three threads, all of
\* them joined, although the loop had seen a single future.
C10_Witness ==
    /\ variant = "threads"
    /\ pc = "raised"
    /\ nthreads = 3
    /\ nexited = 3
    /\ result = <<>>
    /\ AllFinished

\* How many of the first n calls of wrap returned.
RECURSIVE ReturnedAmong(_)
ReturnedAmong(n) ==
    IF n = 0 THEN 0
    ELSE ReturnedAmong(n - 1) + (IF outcomes[n].ok THEN 1 ELSE 0)

\* C11: every call of the timed function calls func once, with the positional
\* and keyword arguments it was given, and hands back what func returned.
C11_TimingPassThrough ==
    /\ Len(fcalls) = Len(wcalls) - (IF wpc = "call" THEN 1 ELSE 0)
    /\ \A n \in DOMAIN fcalls : fcalls[n] = wcalls[n]
    /\ \A n \in DOMAIN outcomes : outcomes[n] = func[wcalls[n][1]]
    /\ wpc = "measure" => tresult = func[args].val

\* C11 witness: two calls with different arguments returned different results.
C11_Witness ==
    /\ Len(outcomes) = 2
    /\ outcomes[1].ok
    /\ outcomes[2].ok
    /\ outcomes[1] # outcomes[2]
    /\ wcalls[1][2] # wcalls[2][2]

\* C16: a line is printed once for each call of the timed function that
\* returned, after func returned, carrying that call's arguments; a call in
\* which func raised ends with func's error and prints nothing.
C16_TimingLog ==
    /\ Len(log) = ReturnedAmong(Len(outcomes))
    /\ \A n \in DOMAIN outcomes :
          outcomes[n].ok =>
             /\ log[ReturnedAmong(n)].args = wcalls[n][1]
             /\ log[ReturnedAmong(n)].kw = wcalls[n][2]
    /\ \A n \in DOMAIN outcomes : ~func[wcalls[n][1]].ok => outcomes[n] = Raises

\* C16 witness: a call in which func raised, then one that returned: one line.
C16_Witness ==
    /\ Len(outcomes) = 2
    /\ ~outcomes[1].ok
    /\ outcomes[2].ok
    /\ Len(log) = 1
    /\ log[1].took > 0

\* C12: the process variant runs func(lst[0]) in the calling thread, without a
\* pool, only for a list of exactly one element; a list of two or more elements
\* that it returns from had every element passed to func. (With one CPU the code
\* takes the serial branch for every non-empty list.)
C12_SerialOnlyForOne ==
    variant = "processes"
    => /\ mainCalls > 0 => Len(lst) = 1
       /\ (Len(lst) >= 2 /\ pc = "returned") => \A i \in Indices : calls[i] = 1

\* C13: in the thread variant on two or more elements func is never started
\* twice on an element, and when the wrapper returns or raises func has been
\* started once on every element and each of these calls has ended: an error
\* leaving the loop does not make the pool skip a call still queued.
C13_NoCancellation ==
    (variant = "threads" /\ Len(lst) >= 2)
    => /\ \A i \in Indices : calls[i] <= 1
       /\ Done => \A i \in Indices : calls[i] = 1 /\ fstate[i] = "finished"

\* C13 witness: an error left the loop while a call was still queued, and by
\* the time it reached the caller that call had run too.
C13_Witness ==
    /\ variant = "threads"
    /\ pc = "raised"
    /\ queuedAtRaise > 0
    /\ \A i \in Indices : calls[i] = 1 /\ fstate[i] = "finished"

\* C14 as stated: the error that reaches the caller is that of the first call
\* to end by raising (observation order being completion order).
C14_FirstCompletedWins ==
    (variant = "threads" /\ Len(lst) >= 2 /\ pc = "raised")
    => raisedBy = firstFailed

\* Future i is the one as_completed hands to the loop in this step.
HandedOver(i) ==
    \/ i \in unordered /\ unordered' = unordered \ {i}
    \/ /\ unordered = {}
       /\ finished_futures # <<>>
       /\ i = Head(finished_futures)
       /\ finished_futures' = Tail(finished_futures)

\* C14 as amended: the error that reaches the caller is that of the first
\* failing future as_completed hands to the loop: the loop ends with it, the
\* list is not appended to afterwards, no list is returned and the error is
\* not replaced by a later one. That future is the first failure to complete
\* unless both it and the first failure to complete had finished before the
\* loop began and were still to be handed over, in no particular order.
C14_FirstYieldedWins ==
    /\ []((variant = "threads" /\ Len(lst) >= 2 /\ raisedBy # 0)
          => /\ ~func[lst[raisedBy]].ok
             /\ pc \in {"shutdown", "join", "raised"}
             /\ ret = <<>>)
    /\ [][(variant = "threads" /\ Len(lst) >= 2)
          => /\ raisedBy # 0 => raisedBy' = raisedBy /\ result' = result
             /\ (raisedBy = 0 /\ raisedBy' # 0)
                => /\ HandedOver(raisedBy')
                   /\ result' = result
                   /\ raisedBy' # firstFailed
                      => {raisedBy', firstFailed} \subseteq unordered
             /\ (raisedBy' = 0 /\ result' # result)
                => \E i \in Indices :
                      /\ HandedOver(i)
                      /\ result' = Append(result, func[lst[i]].val)]_vars

\* C14 witness: two calls raised; the error that reached the caller is not that
\* of the one that ended first.
C14_Witness ==
    /\ variant = "threads"
    /\ pc = "raised"
    /\ firstFailed # 0
    /\ raisedBy # firstFailed
    /\ ret = <<>>

SomeCallHangs == \E i \in Indices : lst[i] \in hangs

\* C15: under a fair scheduler the thread variant's invocation returns or
\* raises when func ends on every element of lst, and never hands control back
\* when func does not end on some element.
C15_Termination ==
    /\ (~SomeCallHangs) ~> Done
    /\ [](SomeCallHangs => ~Done)

\* C15 witness: an error has left the loop and every other call has ended, yet
\* the wrapper waits for ever in the pool's shutdown for a call that never ends.
C15_Witness ==
    /\ pc = "join"
    /\ raisedBy # 0
    /\ \E i \in Indices : lst[i] \in hangs /\ fstate[i] = "running"
    /\ ~ENABLED NextLive

\* C18: in calls that follow one another, every call made while the cache is
\* empty runs the constructor with its own arguments; when the constructor
\* raises, the error is the call's outcome and the cache stays empty, so the
\* next call constructs again; the first construction that succeeds fills the
\* cache, and no later call constructs again or replaces the cached object.
C18_FailedConstruction ==
    /\ [](~overlap
          => /\ \A k \in DOMAIN ctorCalls : ctorCalls[k] = callLog[k]
             /\ \A k \in 1..(Len(ctorCalls) - 1) : ~class_[ctorCalls[k]]
             /\ nraised = Cardinality({k \in DOMAIN ctorCalls : ~class_[ctorCalls[k]]})
             /\ Len(objects) <= 1
             /\ objects = <<>> => instances = <<>>
             /\ instances # <<>> => instances = <<1>>
             /\ \A k \in DOMAIN returned : returned[k] = 1)
    /\ [][(~overlap' /\ instances # <<>>)
          => instances' = instances /\ ctorCalls' = ctorCalls]_vars
    /\ [][(~overlap' /\ nraised' > nraised)
          => instances' = instances /\ instances = <<>>]_vars

\* C18 witness: the first call's construction raised, the second call built the
\* object from its own arguments, and the third call got that object.
C18_Witness ==
    /\ ~overlap
    /\ nraised = 1
    /\ Len(ctorCalls) = 2
    /\ ~class_[callLog[1]]
    /\ objects = <<callLog[2]>>
    /\ returned = <<1, 1>>

\* R is [f(x) for x in L] up to the order of its elements.
IsPermutationOfMapOf(R, L) ==
    /\ Len(R) = Len(L)
    /\ \E p \in [DOMAIN L -> DOMAIN L] :
          /\ \A i, j \in DOMAIN L : p[i] = p[j] => i = j
          /\ \A i \in DOMAIN L : R[i] = func[L[p[i]]].val

\* C17: of two invocations of the same thread-wrapped function, one after the
\* other or interleaved, each one that returns returns a permutation of the
\* map of func over its own list, and each one that opened a pool has a pool
\* of its own, sized for its own list, whose threads are its own.
C17_NoCrossInvocationState ==
    /\ pc = "returned" => IsPermutationOfMapOf(ret, lst)
    /\ other.pc = "returned" => IsPermutationOfMapOf(other.ret, other.lst)
    /\ pool => /\ max_workers = Min2(number_of_threads_multiple * cpu, Len(lst))
               /\ nthreads <= max_workers
    /\ other.pool =>
          /\ other.max_workers = Min2(number_of_threads_multiple * cpu, Len(other.lst))
          /\ other.nthreads <= other.max_workers

\* C17 witness: an invocation on two elements returned its own two results
\* while the other invocation, on a list with other results, had its pool open
\* and one of its results collected.
C17_Witness ==
    /\ pc = "returned"
    /\ Len(lst) = 2
    /\ pool
    /\ \A i \in DOMAIN lst : func[lst[i]].ok
    /\ Len(other.lst) = 2
    /\ other.pc = "collect"
    /\ other.pool
    /\ Len(other.result) = 1
    /\ \A i \in DOMAIN lst : ret[i] # other.result[1]
====
